---- MODULE Spec2Model ----
(***************************************************************************)
(* Circuit dependency graph (pennylane/circuit_graph.py) and the circuit   *)
(* container with its gradient engine (openqml/circuit.py).                *)
(*                                                                         *)
(* Operators and Commands are Python objects: the model gives each one an  *)
(* identity (a positive integer) and keeps its attributes in a record.     *)
(* The operator queue handed to CircuitGraph and the command sequence      *)
(* handed to Circuit hold pairwise distinct objects, each owning its own   *)
(* wire and parameter lists.                                               *)
(***************************************************************************)
EXTENDS Integers, Sequences, FiniteSets, TLC

\* ------------------------------------------------------------------ bounds
\* longest operator queue handed to CircuitGraph
MaxOps == 3
\* longest command sequence handed to Circuit
MaxCmds == 3
\* number of operator records in existence: the queued ones and the
\* replacement records that update_node callers create
MaxRecords == MaxOps + 1
\* number of update_node calls on one graph that get past the wires check
MaxUpdates == 2

\* the longest argument which of a gradient call
MaxWhich == 2

\* Python's None, where an integer is expected
None == -1

VARIABLES
    ops,            \* the operator queue given to CircuitGraph (object ids)
    op,             \* object id -> [wires, return_type, params, queue_idx]
    grid,           \* CircuitGraph._grid: wire -> list of operators
    nodes,          \* CircuitGraph._graph: node set
    edges,          \* CircuitGraph._graph: edge set, pairs <<a, b>>
    variable_deps,  \* CircuitGraph.variable_deps: list of <<param_idx, deps>>
    built,          \* CircuitGraph.__init__ has run
    clean,          \* history: every update_node call that got past the
                    \* wires check succeeded, with a replacement that was
                    \* not a node of the graph
    n_updates,      \* history: update_node calls that got past the wires
                    \* check (a call refused there changes nothing)
    ret             \* the last call made on the graph and what it returned
                    \* (for update_node also the wires of old and of new)

VARIABLES
    seq,            \* Circuit.seq: the Commands [gate_n_par, par, reg]
    seq0,           \* history: the Commands as handed to Circuit
    pars,           \* Circuit.pars: parameter index -> Commands using it
    n_sys,          \* Circuit.n_sys
    circ,           \* "new", or how Circuit.__init__ ended
    qn,             \* the frame of the QNode gradient call in progress
    before,         \* history: seq and pars when the gradient call began
    evals           \* history: the backend evaluations of the call

graph_vars ==
    <<ops, op, grid, nodes, edges, variable_deps, built, clean, n_updates, ret>>

circuit_vars == <<seq, seq0, pars, n_sys, circ, qn, before, evals>>

vars == <<graph_vars, circuit_vars>>

\* ----------------------------------------------------------------- helpers
Range(s) == {s[i] : i \in DOMAIN s}

\* the circuits act on two wires
Wires == {0, 1}

\* wire lists without duplicates (an Operation Record never repeats a wire)
WireLists ==
    UNION {{s \in [1..n -> Wires] : \A i, j \in 1..n : i # j => s[i] # s[j]}
           : n \in 1..Cardinality(Wires)}

\* the queued operators list their wires in increasing order; replacement
\* records handed to update_node list them in any order
QueuedWireLists ==
    {s \in WireLists : \A i, j \in DOMAIN s : i < j => s[i] < s[j]}

NoCall == [call |-> "none", arg |-> <<>>, val |-> <<>>]

\* ------------------------------------------------- circuit_graph.py helpers
\* _by_idx: sorting key of an operator
by_idx(node) == op[node].queue_idx

\* a predicate that reads an attribute the records do not have
is_observable_unset(node) == FALSE

\* _is_observable: the return type is set
is_observable(node) == op[node].return_type

\* sorted(S, key=_by_idx): every list of the elements of S, each once, with
\* non-decreasing keys (equal keys leave the order to the set's iteration)
sorted_by_idx(S) ==
    {s \in [1..Cardinality(S) -> S] :
        /\ \A i, j \in DOMAIN s : i # j => s[i] # s[j]
        /\ \A i, j \in DOMAIN s : i < j => by_idx(s[i]) <= by_idx(s[j])}

\* nodes reachable from the set S along the edges E, S included
RECURSIVE reach(_, _)
reach(E, S) ==
    LET T == S \cup {e[2] : e \in {x \in E : x[1] \in S}}
    IN  IF T = S THEN S ELSE reach(E, T)

\* the edge set reversed
reversed(E) == {<<e[2], e[1]>> : e \in E}

\* networkx.dag.descendants / ancestors: reachable nodes, the source excluded
nx_descendants(o) == reach(edges, {o}) \ {o}
nx_ancestors(o) == reach(reversed(edges), {o}) \ {o}

\* CircuitGraph.ancestors / descendants of a set of operators
\* only the operators with an edge to one of S
ancestors_direct(S) == {e[1] : e \in {x \in edges : x[2] \in S}} \ S

ancestors(S) == UNION {nx_ancestors(o) : o \in S} \ S
descendants(S) == UNION {nx_descendants(o) : o \in S} \ S

\* the final node left out of its own ancestor set
nodes_between_open(a, b) ==
    LET A == descendants({a}) \cup {a}
        B == ancestors({b})
    IN  A \cap B

\* CircuitGraph.nodes_between
nodes_between(a, b) ==
    LET A == descendants({a}) \cup {a}
        B == ancestors({b}) \cup {b}
    IN  A \cap B

\* ------------------------------------------------- CircuitGraph.__init__
\* op.queue_idx = k for k, op in enumerate(ops)
enumerate_queue_idx(q, o) ==
    [i \in DOMAIN o |->
        IF i \in Range(q)
        THEN [o[i] EXCEPT !.queue_idx =
                 (CHOOSE k \in DOMAIN q :
                     q[k] = i /\ \A m \in DOMAIN q : q[m] = i => m <= k) - 1]
        ELSE o[i]]

\* self._grid.setdefault(w, []).append(op) for every wire of every operator
build_grid(q, o) ==
    LET used == UNION {Range(o[q[k]].wires) : k \in DOMAIN q}
    IN  [w \in used |-> SelectSeq(q, LAMBDA x : w \in Range(o[x].wires))]

\* add_node for every operator of every wire
build_nodes(g) == UNION {Range(g[w]) : w \in DOMAIN g}

\* edges pointing from each operator to the previous one on the wire
build_edges_backwards(g) ==
    UNION {{<<g[w][i], g[w][i - 1]>> : i \in 2..Len(g[w])} : w \in DOMAIN g}

\* every operator linked to all later operators of the wire
build_edges_all_later(g) ==
    UNION {{e \in Range(g[w]) \X Range(g[w]) :
               \E i, j \in DOMAIN g[w] : i < j /\ e = <<g[w][i], g[w][j]>>}
           : w \in DOMAIN g}

\* add_edge(wire[i - 1], wire[i])
build_edges(g) ==
    UNION {{<<g[w][i - 1], g[w][i]>> : i \in 2..Len(g[w])} : w \in DOMAIN g}

\* variable_deps as the caller builds it: one entry per parameter slot that
\* holds a free parameter, in queue order; the keys in order of insertion
RECURSIVE add_deps(_, _, _, _)
add_deps(deps, o, id, j) ==
    IF j > Len(o[id].params) THEN deps
    ELSE LET p == o[id].params[j]
         IN  IF p = None THEN add_deps(deps, o, id, j + 1)
             ELSE IF \E i \in DOMAIN deps : deps[i][1] = p
             THEN add_deps(
                    [i \in DOMAIN deps |->
                        IF deps[i][1] = p
                        THEN <<p, Append(deps[i][2], <<id, j - 1>>)>>
                        ELSE deps[i]],
                    o, id, j + 1)
             ELSE add_deps(Append(deps, <<p, <<(<<id, j - 1>>)>> >>),
                           o, id, j + 1)

RECURSIVE build_deps(_, _, _, _)
build_deps(deps, q, o, k) ==
    IF k > Len(q) THEN deps
    ELSE build_deps(add_deps(deps, o, q[k], 1), q, o, k + 1)

\* the orders in which the caller may have put the keys into the dict:
\* that of the queue and the opposite one
key_orders(deps) ==
    {deps, [i \in DOMAIN deps |-> deps[Len(deps) + 1 - i]]}

\* the dict in the order of the queue
queue_order(deps) == {deps}

\* the orders of the dict: any of them, or that of the queue alone
dict_orders(deps, any) == IF any THEN key_orders(deps) ELSE queue_order(deps)

\* CircuitGraph(ops, variable_deps), with the dict in one of its orders
construct(any) ==
    /\ ~built
    /\ built' = TRUE
    /\ op' = enumerate_queue_idx(ops, op)
    /\ grid' = build_grid(ops, op)
    /\ nodes' = build_nodes(build_grid(ops, op))
    /\ edges' = build_edges(build_grid(ops, op))
    /\ variable_deps' \in dict_orders(build_deps(<<>>, ops, op, 1), any)
    /\ UNCHANGED <<ops, clean, n_updates, ret>>
    /\ UNCHANGED circuit_vars

Construct == construct(FALSE)

ConstructAnyOrder == construct(TRUE)

\* ------------------------------------------------------------ the queries
ObservablesInOrder ==
    /\ built
    /\ \E s \in sorted_by_idx({n \in nodes : is_observable(n)}) :
          ret' = [call |-> "observables_in_order", arg |-> <<>>, val |-> s]
    /\ UNCHANGED <<ops, op, grid, nodes, edges, variable_deps, built, clean,
                   n_updates>>
    /\ UNCHANGED circuit_vars

OperationsInOrder ==
    /\ built
    /\ \E s \in sorted_by_idx({n \in nodes : ~is_observable(n)}) :
          ret' = [call |-> "operations_in_order", arg |-> <<>>, val |-> s]
    /\ UNCHANGED <<ops, op, grid, nodes, edges, variable_deps, built, clean,
                   n_updates>>
    /\ UNCHANGED circuit_vars

AncestorsInOrder ==
    /\ built
    /\ \E S \in SUBSET nodes : \E s \in sorted_by_idx(ancestors(S)) :
          ret' = [call |-> "ancestors_in_order", arg |-> S, val |-> s]
    /\ UNCHANGED <<ops, op, grid, nodes, edges, variable_deps, built, clean,
                   n_updates>>
    /\ UNCHANGED circuit_vars

DescendantsInOrder ==
    /\ built
    /\ \E S \in SUBSET nodes : \E s \in sorted_by_idx(descendants(S)) :
          ret' = [call |-> "descendants_in_order", arg |-> S, val |-> s]
    /\ UNCHANGED <<ops, op, grid, nodes, edges, variable_deps, built, clean,
                   n_updates>>
    /\ UNCHANGED circuit_vars

NodesBetween ==
    /\ built
    /\ \E a, b \in nodes :
          ret' = [call |-> "nodes_between", arg |-> <<a, b>>,
                  val |-> nodes_between(a, b)]
    /\ UNCHANGED <<ops, op, grid, nodes, edges, variable_deps, built, clean,
                   n_updates>>
    /\ UNCHANGED circuit_vars

\* ----------------------------------------------------- CircuitGraph.layers
\* Layer([], [])
EmptyLayer == [ops |-> <<>>, param_inds |-> <<>>]

\* key of sorted(variable_deps.items(), ...): x[1][0].op.queue_idx
first_op_idx(x) == by_idx(x[2][1][1])

\* x put behind the entries of the sorted list s whose key is not larger
insert_by_key(s, x) ==
    LET n == Cardinality({i \in DOMAIN s : first_op_idx(s[i]) <= first_op_idx(x)})
    IN  SubSeq(s, 1, n) \o <<x>> \o SubSeq(s, n + 1, Len(s))

\* sorted() is stable: entries with equal keys keep the order of the dict
RECURSIVE variable_ops_sorted(_)
variable_ops_sorted(items) ==
    IF items = <<>> THEN <<>>
    ELSE insert_by_key(variable_ops_sorted(SubSeq(items, 1, Len(items) - 1)),
                       items[Len(items)])

\* the two nested loops: <<op, param_idx>> in the order they are visited
RECURSIVE visit_order(_)
visit_order(sorted) ==
    IF sorted = <<>> THEN <<>>
    ELSE [i \in DOMAIN Head(sorted)[2] |->
             <<Head(sorted)[2][i][1], Head(sorted)[1]>>]
         \o visit_order(Tail(sorted))

\* an operator that opens a new layer is left out of it
place_lost(ls, o, param_idx) ==
    LET current == ls[Len(ls)]
        sub == ancestors({o})
    IN  IF Range(current.ops) \cap sub # {}
        THEN Append(ls, EmptyLayer)
        ELSE [ls EXCEPT ![Len(ls)] =
                 [ops |-> Append(current.ops, o),
                  param_inds |-> Append(current.param_inds, param_idx)]]

\* a loop body that opens a new layer for every operator that finds the
\* current one occupied
place_apart(ls, o, param_idx) ==
    LET current == ls[Len(ls)]
        ls2 == IF current.ops # <<>> THEN Append(ls, EmptyLayer) ELSE ls
        cur2 == ls2[Len(ls2)]
    IN  [ls2 EXCEPT ![Len(ls2)] =
            [ops |-> Append(cur2.ops, o),
             param_inds |-> Append(cur2.param_inds, param_idx)]]

\* the loop body: open a new layer if the operator depends on the current
\* one, then append the operator and its parameter index
place(ls, o, param_idx) ==
    LET current == ls[Len(ls)]
        sub == ancestors({o})
        ls2 == IF Range(current.ops) \cap sub # {}
               THEN Append(ls, EmptyLayer)
               ELSE ls
        cur2 == ls2[Len(ls2)]
    IN  [ls2 EXCEPT ![Len(ls2)] =
            [ops |-> Append(cur2.ops, o),
             param_inds |-> Append(cur2.param_inds, param_idx)]]

RECURSIVE layers_loop(_, _)
layers_loop(ls, visit) ==
    IF visit = <<>> THEN ls
    ELSE layers_loop(place(ls, Head(visit)[1], Head(visit)[2]), Tail(visit))

layers ==
    layers_loop(<<EmptyLayer>>, visit_order(variable_ops_sorted(variable_deps)))

Layers ==
    /\ built
    /\ ret' = [call |-> "layers", arg |-> <<>>, val |-> layers]
    /\ UNCHANGED <<ops, op, grid, nodes, edges, variable_deps, built, clean,
                   n_updates>>
    /\ UNCHANGED circuit_vars

\* LayerData(pre_ops, ops, param_inds, post_ops)
LayerData(pre_ops, layer_ops, param_inds, post_ops) ==
    [pre_ops |-> pre_ops, ops |-> layer_ops, param_inds |-> param_inds,
     post_ops |-> post_ops]

\* CircuitGraph.iterate_layers: the lists it can yield for the layers ls
\* from the l-th on
RECURSIVE iterate_layers_from(_, _)
iterate_layers_from(ls, l) ==
    IF l > Len(ls) THEN {<<>>}
    ELSE {<<LayerData(pre_queue, ls[l].ops, ls[l].param_inds, post_queue)>>
             \o rest :
            pre_queue \in sorted_by_idx(ancestors(Range(ls[l].ops))),
            post_queue \in sorted_by_idx(descendants(Range(ls[l].ops))),
            rest \in iterate_layers_from(ls, l + 1)}

iterate_layers == iterate_layers_from(layers, 1)

IterateLayers ==
    /\ built
    /\ \E val \in iterate_layers :
          ret' = [call |-> "iterate_layers", arg |-> <<>>, val |-> val]
    /\ UNCHANGED <<ops, op, grid, nodes, edges, variable_deps, built, clean,
                   n_updates>>
    /\ UNCHANGED circuit_vars

\* ---------------------------------------------- CircuitGraph.greedy_layers
\* the columns the model tells apart, one for every queued operator and one
\* more: l is counted modulo this number, which no call that comes to its
\* end reaches
MaxColumns == MaxOps + 1

\* the copy of the grid without the observables
non_observables(g) ==
    [w \in DOMAIN g |-> SelectSeq(g[w], LAMBDA o : ~is_observable(o))]

\* list_at_index_or_none (idx counts from zero)
list_at_index_or_none(list, idx) ==
    IF Len(list) > idx THEN list[idx + 1] ELSE None

\* empty_list_to_none
empty_list_to_none(list) == IF list # <<>> THEN list ELSE <<None>>

\* every operator taken for a one-wire operator
num_wires_one(o) == 1

\* Operator.num_wires: the number of wires the operator acts on
num_wires(o) == Len(op[o].wires)

\* layer_ops: the entry of every wire in column l
layer_ops(g, l) == [w \in DOMAIN g |-> list_at_index_or_none(g[w], l)]

\* num_ops[x]: Counter(layer_ops.values())
num_ops(lo, x) == Cardinality({w \in DOMAIN lo : lo[w] = x})

\* None in num_ops and num_ops[None] == len(greedy_grid)
column_is_empty(g, lo) ==
    /\ \E w \in DOMAIN lo : lo[w] = None
    /\ num_ops(lo, None) = Cardinality(DOMAIN g)

\* list.insert(l, None)
insert_none(list, l) ==
    SubSeq(list, 1, l) \o <<None>> \o SubSeq(list, l + 1, Len(list))

\* the for loop over layer_ops.items(): a wire that has run out gets a
\* placeholder at the end, an operator that not all of its wires have
\* reached is pushed back by a placeholder in its place
fill_column(g, l) ==
    LET lo == layer_ops(g, l)
    IN  [w \in DOMAIN g |->
            IF lo[w] = None THEN Append(g[w], None)
            ELSE IF num_wires(lo[w]) > num_ops(lo, lo[w])
            THEN insert_none(g[w], l)
            ELSE g[w]]

\* the observables of every wire of the stored grid
greedy_observables(g) ==
    [w \in DOMAIN g |->
        empty_list_to_none(SelectSeq(g[w], LAMBDA o : is_observable(o)))]

\* the call, up to the loop: l = 0 and the filtered copy of the grid
GreedyLayers ==
    /\ built
    /\ ret.call # "greedy_layers"
    /\ ret' = [call |-> "greedy_layers", arg |-> <<>>, pc |-> "loop",
               l |-> 0, greedy_grid |-> non_observables(grid), val |-> <<>>]
    /\ UNCHANGED <<ops, op, grid, nodes, edges, variable_deps, built, clean,
                   n_updates>>
    /\ UNCHANGED circuit_vars

\* one round of "while True": break and return the two grids, or fill
\* column l and go on to the next
GreedyColumn ==
    /\ ret.call = "greedy_layers"
    /\ ret.pc = "loop"
    /\ IF column_is_empty(ret.greedy_grid, layer_ops(ret.greedy_grid, ret.l))
       THEN ret' = [ret EXCEPT
                       !.pc = "done",
                       !.val = <<ret.greedy_grid, greedy_observables(grid)>>]
       ELSE ret' = [ret EXCEPT
                       !.greedy_grid = fill_column(ret.greedy_grid, ret.l),
                       !.l = (ret.l + 1) % MaxColumns]
    /\ UNCHANGED <<ops, op, grid, nodes, edges, variable_deps, built, clean,
                   n_updates>>
    /\ UNCHANGED circuit_vars

\* ------------------------------------------------ CircuitGraph.update_node
\* a relabelling that loses the edges into the replaced node
relabel_out_edges_only(E, old, new) ==
    {<<IF e[1] = old THEN new ELSE e[1], e[2]>> : e \in {d \in E : d[2] # old}}

\* a relabelling that leaves the edges of the replaced node in the graph
relabel_copying(E, old, new) ==
    E \cup {<<IF e[1] = old THEN new ELSE e[1],
              IF e[2] = old THEN new ELSE e[2]>> : e \in E}

\* networkx.relabel_nodes(G, {old: new}, copy=False) on the edge set
relabel(E, old, new) ==
    {<<IF e[1] = old THEN new ELSE e[1], IF e[2] = old THEN new ELSE e[2]>>
        : e \in E}

\* the replacement keeps the queue index it had
set_queue_idx_skipped(o, old, new) == o

\* new.queue_idx = old.queue_idx
set_queue_idx(o, old, new) == [o EXCEPT ![new].queue_idx = o[old].queue_idx]

\* what a caller can tell of the graph at the moment of a call: the nodes,
\* the edges and the queue index of every node
graph_of(o) ==
    [nodes |-> nodes, edges |-> edges,
     idx |-> [x \in nodes |-> o[x].queue_idx]]

\* the outcome val of the call update_node(old, new), with the graph it
\* was made on
update_node_ret(o, old, new, val) ==
    [call |-> "update_node", arg |-> <<old, new>>,
     wires |-> <<o[old].wires, o[new].wires>>,
     prev |-> graph_of(o), val |-> val]

\* update_node(old, new) on records that exist already
update_node(o, old, new) ==
    IF o[new].wires # o[old].wires
    THEN \* ValueError before anything is written
         /\ ret' = update_node_ret(o, old, new, "ValueError")
         /\ UNCHANGED <<op, nodes, edges, clean, n_updates>>
    ELSE /\ op' = set_queue_idx(o, old, new)
         /\ n_updates' = n_updates + 1
         /\ IF new = old
            THEN \* relabel_nodes skips a node mapped to itself
                 /\ ret' = update_node_ret(o, old, new, "ok")
                 /\ clean' = FALSE
                 /\ UNCHANGED <<nodes, edges>>
            ELSE IF old \notin nodes
            THEN \* relabel_nodes raises KeyError: old is not in the graph
                 /\ ret' = update_node_ret(o, old, new, "KeyError")
                 /\ clean' = FALSE
                 /\ UNCHANGED <<nodes, edges>>
            ELSE /\ ret' = update_node_ret(o, old, new, "ok")
                 /\ clean' = (clean /\ new \notin nodes)
                 /\ nodes' = (nodes \ {old}) \cup {new}
                 /\ edges' = relabel(edges, old, new)

\* the caller replaces old by a record that exists already
UpdateNode ==
    /\ built
    /\ n_updates < MaxUpdates
    /\ \E old, new \in DOMAIN op : update_node(op, old, new)
    /\ UNCHANGED <<ops, grid, variable_deps, built>>
    /\ UNCHANGED circuit_vars

\* the caller replaces old by a record made for the purpose
UpdateNodeFresh ==
    /\ built
    /\ n_updates < MaxUpdates
    /\ Cardinality(DOMAIN op) < MaxRecords
    /\ \E old \in DOMAIN op, w \in WireLists, r \in {FALSE} :
          LET new == Cardinality(DOMAIN op) + 1
              o == [i \in DOMAIN op \cup {new} |->
                       IF i = new
                       THEN [wires |-> w, return_type |-> r,
                             params |-> <<>>, queue_idx |-> None]
                       ELSE op[i]]
          IN  update_node(o, old, new)
    /\ UNCHANGED <<ops, grid, variable_deps, built>>
    /\ UNCHANGED circuit_vars

\* -------------------------------------------------- openqml/circuit.py
\* a parameter of a Command: a ParRef (an index into the parameter vector)
\* or a fixed number
ParRef(idx) == [ref |-> TRUE, v |-> idx]
Fixed(x) == [ref |-> FALSE, v |-> x]

\* a Command as Command.__init__ leaves it: as many parameters as the gate
\* takes
Command(par, reg) == [gate_n_par |-> Len(par), par |-> par, reg |-> reg]

Min(S) == CHOOSE x \in S : \A y \in S : x <= y
Max(S) == CHOOSE x \in S : \A y \in S : x >= y

\* the number of unused indices check_indices tolerates before giving up
MaxUnused == 10

\* a check that does not look for unused indices
check_indices_no_gaps(inds) ==
    IF Cardinality(inds) = 0 THEN TRUE
    ELSE Min(inds) >= 0

\* a check that accepts a range with no more unused indices than tolerated
check_indices_tolerant(inds) ==
    IF Cardinality(inds) = 0 THEN TRUE
    ELSE LET ok == ~(Min(inds) < 0)
             n_ind == Max(inds) + 1
         IN  IF n_ind > Cardinality(inds) + MaxUnused THEN FALSE
             ELSE ok

\* Circuit.check_indices: the indices are a gapless range starting from zero
check_indices(inds) ==
    IF Cardinality(inds) = 0 THEN TRUE
    ELSE LET ok == ~(Min(inds) < 0)
             n_ind == Max(inds) + 1
         IN  IF n_ind > Cardinality(inds) + MaxUnused THEN FALSE
             ELSE IF (0..(n_ind - 1)) \ inds # {} THEN FALSE
             ELSE ok

\* the parameter slots <<command, slot>> of a command sequence, in order
RECURSIVE slots_from(_, _, _)
slots_from(s, c, j) ==
    IF c > Len(s) THEN <<>>
    ELSE IF j > Len(s[c].par) THEN slots_from(s, c + 1, 1)
    ELSE <<(<<c, j>>)>> \o slots_from(s, c, j + 1)

\* the first loop of Circuit.__init__: subsys.update(cmd.reg)
collect_subsys(s) == UNION {Range(s[c].reg) : c \in DOMAIN s}

\* the first loop of Circuit.__init__:
\* self.pars.setdefault(p.idx, []).append(cmd) for every ParRef p
collect_pars(s) ==
    LET sl == slots_from(s, 1, 1)
        is_ref(e) == s[e[1]].par[e[2]].ref
        keys == {s[sl[i][1]].par[sl[i][2]].v :
                    i \in {x \in DOMAIN sl : is_ref(sl[x])}}
        users(k) == SelectSeq(sl, LAMBDA e : s[e[1]].par[e[2]] = ParRef(k))
    IN  [k \in keys |-> [i \in DOMAIN users(k) |-> users(k)[i][1]]]

\* the labels are handed out in decreasing order of the wires
remap_subsys_reversed(s, subsys) ==
    LET m == [x \in subsys |-> Cardinality({y \in subsys : y > x})]
    IN  [c \in DOMAIN s |->
            [s[c] EXCEPT !.reg = [i \in DOMAIN s[c].reg |-> m[s[c].reg[i]]]]]

\* m = dict(zip(sorted(subsys), range(len(subsys)))); cmd.reg = [m[s] ...]
remap_subsys(s, subsys) ==
    LET m == [x \in subsys |-> Cardinality({y \in subsys : y < x})]
    IN  [c \in DOMAIN s |->
            [s[c] EXCEPT !.reg = [i \in DOMAIN s[c].reg |-> m[s[c].reg[i]]]]]

\* Circuit.__init__
CircuitInit ==
    /\ circ = "new"
    /\ LET subsys == collect_subsys(seq)
           p == collect_pars(seq)
       IN  /\ pars' = p
           /\ n_sys' = Cardinality(subsys)
           /\ seq' = IF ~check_indices(subsys)
                     THEN remap_subsys(seq, subsys)
                     ELSE seq
           /\ circ' = IF ~check_indices(DOMAIN p) THEN "ValueError" ELSE "ok"
    /\ UNCHANGED <<seq0, qn, before, evals>>
    /\ UNCHANGED graph_vars

\* Circuit.n_par
n_par == Cardinality(DOMAIN pars)

\* ------------------------------------------------------- the backend
\* the shift of the angle method, pi/2, in the model's integer unit
PiHalf == 2

\* the values the Commands' parameters take under the vector t, in order
resolve(s, t) ==
    LET sl == slots_from(s, 1, 1)
    IN  [i \in DOMAIN sl |->
            LET e == s[sl[i][1]].par[sl[i][2]]
            IN  IF e.ref THEN t[e.v + 1] ELSE e.v]

RECURSIVE weighted_squares(_, _)
weighted_squares(v, i) ==
    IF i > Len(v) THEN 0 ELSE i * v[i] * v[i] + weighted_squares(v, i + 1)

RECURSIVE sum(_, _)
sum(v, i) == IF i > Len(v) THEN 0 ELSE v[i] + sum(v, i + 1)

\* backend.execute_circuit: a fixed function of the values the Commands'
\* parameters take, not additive over the Commands; the results are even so
\* that halving a difference of two results is exact
execute_circuit(s, t) ==
    LET v == resolve(s, t)
    IN  2 * (weighted_squares(v, 1) + sum(v, 1) * sum(v, 1))

\* ------------------------------------------------ QNode.gradient_angle
Idle == [pc |-> "idle"]

\* the Command keeps the temporary reference
restore_par_skipped(s, c, orig) == s

\* the slot is given a number, not the reference it held
restore_par_fixed(s, c, orig) == [s EXCEPT ![c].par[1] = Fixed(0)]

\* cmd.par[0] = orig
restore_par(s, c, orig) == [s EXCEPT ![c].par[1] = orig]

\* the contribution replaces what was accumulated
accumulate_overwrite(g, i, x2, x1) == [g EXCEPT ![i] = (x2 - x1) \div 2]

\* grad[i] += (x2-x1) / 2
accumulate(g, i, x2, x1) == [g EXCEPT ![i] = @ + (x2 - x1) \div 2]

\* the values of a parameter vector
ParamVals == {0, 1}

\* the lists of the elements of the set W, in the orders a set is iterated
Orders(W) ==
    {s \in [1..Cardinality(W) -> W] :
        \A a, b \in DOMAIN s : a # b => s[a] # s[b]}

\* the increasing list of the elements of the set W, as a one-element set
sorted_ints(W) ==
    {s \in Orders(W) : \A a, b \in DOMAIN s : a < b => s[a] < s[b]}

\* the argument which as the caller hands it over: None when it is left
\* out, else a sequence of indices in which an index may repeat
NoWhich == [given |-> FALSE, seq |-> <<>>]
Which(s) == [given |-> TRUE, seq |-> s]

\* one sequence for every set of indices of a vector of len entries
WhichSets(len) ==
    {Which(s) : s \in UNION {sorted_ints(W) : W \in SUBSET (0..(len - 1))}}

\* which left out and the sequences of at most MaxWhich indices, with
\* their repetitions
WhichArgs(len) ==
    {NoWhich} \cup
    {Which(s) : s \in UNION {[1..m -> 0..(len - 1)] : m \in 0..MaxWhich}}

\* an enumeration of which as the caller wrote it, repetitions included
enumerate_which_repeated(which, len) ==
    IF which.given
    THEN {which.seq}
    ELSE {[x \in 1..len |-> x - 1]}

\* the arguments which of a call: any of them, or the duplicate-free
\* sequences alone
which_args(len, any) == IF any THEN WhichArgs(len) ELSE WhichSets(len)

\* enumerate(which) after "if which is None: which = range(len(params))"
\* and "which = set(which)": range(len(params)) keeps its increasing order
\* in the set (an int hashes to itself), any other collection of indices is
\* iterated in an order of the set's choosing
enumerate_which(which, len) ==
    IF which.given
    THEN Orders(Range(which.seq))
    ELSE {[x \in 1..len |-> x - 1]}

\* the call and what precedes the loops: which, params, grad, n
gradient_angle(any) ==
    /\ circ = "ok"
    /\ qn.pc = "idle"
    /\ \E len \in {n_par, n_par + 1} :
         \E params \in [1..len -> ParamVals], which \in which_args(len, any) :
           \E order \in enumerate_which(which, len) :
             qn' = [pc |-> "loop", params |-> params, which |-> which,
                    order |-> order,
                    i |-> 1, j |-> 1, grad |-> [x \in DOMAIN order |-> 0],
                    n |-> n_par, orig |-> ParRef(0), temp |-> <<>>,
                    x2 |-> 0, x1 |-> 0]
    /\ before' = [seq |-> seq, pars |-> pars]
    /\ evals' = <<>>
    /\ UNCHANGED <<seq, seq0, pars, n_sys, circ>>
    /\ UNCHANGED graph_vars

\* a call with a duplicate-free selection
AngleCall == gradient_angle(FALSE)

\* a call with any argument which
AngleCallAny == gradient_angle(TRUE)

\* the None that self.circuit.pars[n] = None stores in a map of lists
NoList == <<None>>

\* the head of the loop body: the checks, the redirection of the Command's
\* parameter to the temporary index n, and the shifted parameter vector
AngleShift ==
    /\ qn.pc = "loop"
    /\ qn.i <= Len(qn.order)
    /\ LET k == qn.order[qn.i]
       IN  IF k \notin DOMAIN pars
           THEN /\ qn' = [qn EXCEPT !.pc = "KeyError"]
                /\ UNCHANGED <<seq, pars>>
           ELSE IF pars[k] = NoList
           THEN /\ qn' = [qn EXCEPT !.pc = "TypeError"]
                /\ UNCHANGED <<seq, pars>>
           ELSE LET c == pars[k][qn.j]
                    orig == seq[c].par[1]
                IN  IF seq[c].gate_n_par # 1
                    THEN /\ qn' = [qn EXCEPT !.pc = "ValueError"]
                         /\ UNCHANGED <<seq, pars>>
                    ELSE IF ~(orig.ref /\ orig.v = k)
                    THEN /\ qn' = [qn EXCEPT !.pc = "AssertionError"]
                         /\ UNCHANGED <<seq, pars>>
                    ELSE /\ seq' = [seq EXCEPT ![c].par[1] = ParRef(qn.n)]
                         /\ pars' = [x \in DOMAIN pars \cup {qn.n} |->
                                        IF x = qn.n THEN NoList ELSE pars[x]]
                         /\ qn' = [qn EXCEPT
                                !.pc = "eval_plus",
                                !.orig = orig,
                                !.temp = Append(qn.params,
                                                qn.params[k + 1] + PiHalf)]
    /\ UNCHANGED <<seq0, n_sys, circ, before, evals>>
    /\ UNCHANGED graph_vars

\* an evaluation that leaves the shifted entry of temp at +pi/2
AngleEvalPlus_unshifted ==
    /\ qn.pc = "eval_plus"
    /\ LET x == execute_circuit(seq, qn.temp)
       IN  /\ evals' = Append(evals, [seq |-> seq, temp |-> qn.temp, x |-> x])
           /\ qn' = [qn EXCEPT !.pc = "eval_minus", !.x2 = x]
    /\ UNCHANGED <<seq, seq0, pars, n_sys, circ, before>>
    /\ UNCHANGED graph_vars

\* x2 = execute_circuit(circuit, temp); temp[-1] = params[k] - pi/2
AngleEvalPlus ==
    /\ qn.pc = "eval_plus"
    /\ LET k == qn.order[qn.i]
           x == execute_circuit(seq, qn.temp)
       IN  /\ evals' = Append(evals, [seq |-> seq, temp |-> qn.temp, x |-> x])
           /\ qn' = [qn EXCEPT
                  !.pc = "eval_minus",
                  !.x2 = x,
                  !.temp = [qn.temp EXCEPT
                               ![Len(qn.temp)] = qn.params[k + 1] - PiHalf]]
    /\ UNCHANGED <<seq, seq0, pars, n_sys, circ, before>>
    /\ UNCHANGED graph_vars

\* x1 = execute_circuit(circuit, temp)
AngleEvalMinus ==
    /\ qn.pc = "eval_minus"
    /\ LET x == execute_circuit(seq, qn.temp)
       IN  /\ evals' = Append(evals, [seq |-> seq, temp |-> qn.temp, x |-> x])
           /\ qn' = [qn EXCEPT !.pc = "restore", !.x1 = x]
    /\ UNCHANGED <<seq, seq0, pars, n_sys, circ, before>>
    /\ UNCHANGED graph_vars

\* no entry of the dependency map p is the None of a temporary index: the
\* backend is taken to raise in one call on a circuit at most
no_leftover(p) == \A x \in DOMAIN p : p[x] # NoList

\* backend.execute_circuit raises at the evaluation with the +pi/2 shift:
\* the exception leaves gradient_angle at that line, nothing after it runs
AngleEvalPlusRaises ==
    /\ qn.pc = "eval_plus"
    /\ no_leftover(before.pars)
    /\ qn' = [qn EXCEPT !.pc = "BackendError"]
    /\ UNCHANGED <<seq, seq0, pars, n_sys, circ, before, evals>>
    /\ UNCHANGED graph_vars

\* backend.execute_circuit raises at the evaluation with the -pi/2 shift
AngleEvalMinusRaises ==
    /\ qn.pc = "eval_minus"
    /\ no_leftover(before.pars)
    /\ qn' = [qn EXCEPT !.pc = "BackendError"]
    /\ UNCHANGED <<seq, seq0, pars, n_sys, circ, before, evals>>
    /\ UNCHANGED graph_vars

\* a loop that leaves a parameter after the first Command that uses it
AngleRestore_first_only ==
    /\ qn.pc = "restore"
    /\ LET k == qn.order[qn.i]
           c == pars[k][qn.j]
       IN  /\ seq' = restore_par(seq, c, qn.orig)
           /\ pars' = [x \in DOMAIN pars \ {qn.n} |-> pars[x]]
           /\ qn' = [qn EXCEPT
                  !.pc = "loop",
                  !.grad = accumulate(qn.grad, qn.i, qn.x2, qn.x1),
                  !.i = qn.i + 1,
                  !.j = 1]
    /\ UNCHANGED <<seq0, n_sys, circ, before, evals>>
    /\ UNCHANGED graph_vars

\* the tail of the loop body: restore the Command and the map, accumulate,
\* and go on to the next Command of the parameter or to the next parameter
AngleRestore ==
    /\ qn.pc = "restore"
    /\ LET k == qn.order[qn.i]
           c == pars[k][qn.j]
           last == qn.j = Len(pars[k])
       IN  /\ seq' = restore_par(seq, c, qn.orig)
           /\ pars' = [x \in DOMAIN pars \ {qn.n} |-> pars[x]]
           /\ qn' = [qn EXCEPT
                  !.pc = "loop",
                  !.grad = accumulate(qn.grad, qn.i, qn.x2, qn.x1),
                  !.i = IF last THEN qn.i + 1 ELSE qn.i,
                  !.j = IF last THEN 1 ELSE qn.j + 1]
    /\ UNCHANGED <<seq0, n_sys, circ, before, evals>>
    /\ UNCHANGED graph_vars

\* return grad
AngleReturn ==
    /\ qn.pc = "loop"
    /\ qn.i > Len(qn.order)
    /\ qn' = [qn EXCEPT !.pc = "done"]
    /\ UNCHANGED <<seq, seq0, pars, n_sys, circ, before, evals>>
    /\ UNCHANGED graph_vars

\* the call is over, with the gradient or with an exception: the next call
\* starts from the circuit as this one left it
AngleExit ==
    /\ qn.pc \in {"done", "KeyError", "TypeError", "ValueError",
                  "AssertionError", "BackendError"}
    /\ qn' = Idle
    /\ before' = <<>>
    /\ evals' = <<>>
    /\ UNCHANGED <<seq, seq0, pars, n_sys, circ>>
    /\ UNCHANGED graph_vars

\* ------------------------------------------- QNode.gradient_finite_diff
\* the step sizes h handed to the method: even, so that h/2 is a whole
\* number of the model's unit
StepSizes == {2}

\* the orders handed to the method
FdOrders == {0, 1, 2, 3}

\* a shift that moves every entry of the vector
shift_entry_all(t, k, d) == [x \in DOMAIN t |-> t[x] + d]

\* temp[k] += d on a copy of the vector (k counts from zero)
shift_entry(t, k, d) == [t EXCEPT ![k + 1] = @ + d]

\* the call and what precedes the branch on order: which, params, grad
gradient_finite_diff(any) ==
    /\ circ = "ok"
    /\ qn.pc = "idle"
    /\ \E len \in {n_par, n_par + 1} :
         \E params \in [1..len -> ParamVals], which \in which_args(len, any) :
           \E order \in enumerate_which(which, len),
              o \in FdOrders, h \in StepSizes :
             /\ qn' = [pc |-> "fd_branch", params |-> params,
                       which |-> which,
                       order |-> order, fd_order |-> o, h |-> h, i |-> 1,
                       grad |-> [x \in DOMAIN order |-> 0],
                       temp |-> <<>>, x0 |-> 0, x2 |-> 0, x1 |-> 0]
             /\ before' = [seq |-> seq, pars |-> pars, params |-> params]
    /\ evals' = <<>>
    /\ UNCHANGED <<seq, seq0, pars, n_sys, circ>>
    /\ UNCHANGED graph_vars

\* a call with a duplicate-free selection
FiniteDiffCall == gradient_finite_diff(FALSE)

\* a call with any argument which
FiniteDiffCallAny == gradient_finite_diff(TRUE)

\* the order-1 method without the evaluation at the point itself
FiniteDiffEval0_unevaluated ==
    /\ qn.pc = "fd_branch"
    /\ qn.fd_order = 1
    /\ qn' = [qn EXCEPT !.pc = "fd1"]
    /\ UNCHANGED <<seq, seq0, pars, n_sys, circ, before, evals>>
    /\ UNCHANGED graph_vars

\* order == 1: x0 = execute_circuit(circuit, params)
FiniteDiffEval0 ==
    /\ qn.pc = "fd_branch"
    /\ qn.fd_order = 1
    /\ LET x == execute_circuit(seq, qn.params)
       IN  /\ evals' = Append(evals,
                              [seq |-> seq, temp |-> qn.params, x |-> x])
           /\ qn' = [qn EXCEPT !.pc = "fd1", !.x0 = x]
    /\ UNCHANGED <<seq, seq0, pars, n_sys, circ, before>>
    /\ UNCHANGED graph_vars

\* every order but 1 is taken for order 2
fd_branch_lenient(o) == "fd2"

\* elif order == 2: ... else: raise ValueError('Order must be 1 or 2.')
fd_branch(o) == IF o = 2 THEN "fd2" ELSE "ValueError"

\* order == 2 goes on to the symmetric differences; any other order raises
FiniteDiffOrder ==
    /\ qn.pc = "fd_branch"
    /\ qn.fd_order # 1
    /\ qn' = [qn EXCEPT !.pc = fd_branch(qn.fd_order)]
    /\ UNCHANGED <<seq, seq0, pars, n_sys, circ, before, evals>>
    /\ UNCHANGED graph_vars

\* one round of the order-1 loop: shift by h, evaluate, grad[i] = (x-x0)/h
FiniteDiffForward ==
    /\ qn.pc = "fd1"
    /\ qn.i <= Len(qn.order)
    /\ LET k == qn.order[qn.i]
           temp == shift_entry(qn.params, k, qn.h)
           x == execute_circuit(seq, temp)
       IN  /\ evals' = Append(evals, [seq |-> seq, temp |-> temp, x |-> x])
           /\ qn' = [qn EXCEPT
                  !.temp = temp,
                  !.grad = [@ EXCEPT ![qn.i] = (x - qn.x0) \div qn.h],
                  !.i = qn.i + 1]
    /\ UNCHANGED <<seq, seq0, pars, n_sys, circ, before>>
    /\ UNCHANGED graph_vars

\* the order-2 loop: temp[k] += 0.5*h; x2 = execute_circuit(circuit, temp)
FiniteDiffPlus ==
    /\ qn.pc = "fd2"
    /\ qn.i <= Len(qn.order)
    /\ LET k == qn.order[qn.i]
           temp == shift_entry(qn.params, k, qn.h \div 2)
           x == execute_circuit(seq, temp)
       IN  /\ evals' = Append(evals, [seq |-> seq, temp |-> temp, x |-> x])
           /\ qn' = [qn EXCEPT !.pc = "fd2_minus", !.temp = temp, !.x2 = x]
    /\ UNCHANGED <<seq, seq0, pars, n_sys, circ, before>>
    /\ UNCHANGED graph_vars

\* temp[k] = params[k] - 0.5*h; x1 = execute_circuit(circuit, temp);
\* grad[i] = (x2-x1) / h
FiniteDiffMinus ==
    /\ qn.pc = "fd2_minus"
    /\ LET k == qn.order[qn.i]
           temp == [qn.temp EXCEPT
                       ![k + 1] = qn.params[k + 1] - (qn.h \div 2)]
           x == execute_circuit(seq, temp)
       IN  /\ evals' = Append(evals, [seq |-> seq, temp |-> temp, x |-> x])
           /\ qn' = [qn EXCEPT
                  !.pc = "fd2",
                  !.temp = temp,
                  !.x1 = x,
                  !.grad = [@ EXCEPT ![qn.i] = (qn.x2 - x) \div qn.h],
                  !.i = qn.i + 1]
    /\ UNCHANGED <<seq, seq0, pars, n_sys, circ, before>>
    /\ UNCHANGED graph_vars

\* return grad
FiniteDiffReturn ==
    /\ qn.pc \in {"fd1", "fd2"}
    /\ qn.i > Len(qn.order)
    /\ qn' = [qn EXCEPT !.pc = "done"]
    /\ UNCHANGED <<seq, seq0, pars, n_sys, circ, before, evals>>
    /\ UNCHANGED graph_vars

\* ------------------------------------------------------ Command.__init__
\* a float parameter, its value counted in tenths (27 stands for 2.7), and
\* the floats that have no integer value
Float(tenths) == [ref |-> FALSE, float |-> "finite", tenths |-> tenths]
Inf == [ref |-> FALSE, float |-> "inf"]
NaN == [ref |-> FALSE, float |-> "nan"]

\* isinstance(p, numbers.Integral)
is_integral(p) == DOMAIN p = {"ref", "v"}

\* a GateSpec, as far as Command.__init__ reads it
GateSpec(gate_n_sys, gate_n_par, par_domain) ==
    [n_sys |-> gate_n_sys, n_par |-> gate_n_par, par_domain |-> par_domain]

\* a truncation that rounds down
int_floor(tenths) == tenths \div 10

\* int(x) of a finite float: the fraction is dropped, towards zero
int(tenths) ==
    IF tenths >= 0 THEN tenths \div 10 ELSE 0 - ((0 - tenths) \div 10)

\* convert_par_to_N: what becomes of one parameter, the warnings logged on
\* the way and the exception raised, if any
convert_par_to_N(p) ==
    IF p.ref THEN [p |-> p, log |-> <<>>, raised |-> "none"]
    ELSE IF ~is_integral(p) /\ p.float = "inf"
    THEN [p |-> p, log |-> <<>>, raised |-> "OverflowError"]
    ELSE IF ~is_integral(p) /\ p.float = "nan"
    THEN [p |-> p, log |-> <<>>, raised |-> "ValueError"]
    ELSE LET n == IF is_integral(p) THEN p.v ELSE int(p.tenths)
             log1 == IF is_integral(p) THEN <<>> ELSE <<"truncated">>
         IN  IF n < 0
             THEN [p |-> Fixed(0), log |-> Append(log1, "negative"),
                   raised |-> "none"]
             ELSE [p |-> Fixed(n), log |-> log1, raised |-> "none"]

\* list(map(convert_par_to_N, par)): the parameters are converted in order
\* and the first exception ends the conversion
RECURSIVE map_convert(_, _, _, _)
map_convert(par, j, done, log) ==
    IF j > Len(par) THEN [par |-> done, log |-> log, raised |-> "none"]
    ELSE LET r == convert_par_to_N(par[j])
         IN  IF r.raised # "none"
             THEN [par |-> done, log |-> log \o r.log, raised |-> r.raised]
             ELSE map_convert(par, j + 1, Append(done, r.p), log \o r.log)

\* a construction that does not compare the number of wires
command_init_reg_unchecked(gate, reg, par) ==
    IF Len(par) # gate.n_par
    THEN [raised |-> "ValueError", log |-> <<>>]
    ELSE IF gate.par_domain = "N"
    THEN LET r == map_convert(par, 1, <<>>, <<>>)
         IN  IF r.raised # "none"
             THEN [raised |-> r.raised, log |-> r.log]
             ELSE [raised |-> "none", log |-> r.log,
                   cmd |-> Command(r.par, reg)]
    ELSE [raised |-> "none", log |-> <<>>, cmd |-> Command(par, reg)]

\* Command.__init__: the exception raised, the warnings logged and, when
\* nothing is raised, the Command
command_init(gate, reg, par) ==
    IF Len(par) # gate.n_par
    THEN [raised |-> "ValueError", log |-> <<>>]
    ELSE IF Len(reg) # gate.n_sys
    THEN [raised |-> "ValueError", log |-> <<>>]
    ELSE IF gate.par_domain = "N"
    THEN LET r == map_convert(par, 1, <<>>, <<>>)
         IN  IF r.raised # "none"
             THEN [raised |-> r.raised, log |-> r.log]
             ELSE [raised |-> "none", log |-> r.log,
                   cmd |-> Command(r.par, reg)]
    ELSE [raised |-> "none", log |-> <<>>, cmd |-> Command(par, reg)]

\* the gates, wire lists and parameter lists handed to Command
GateSpecs ==
    {GateSpec(s, n, d) : s \in {1, 2}, n \in {0, 1, 2}, d \in {"N", "R"}}

CommandRegs == {<<>>, <<0>>, <<0, 1>>}

CommandParams ==
    {Fixed(-3), Fixed(0), Fixed(2), Float(27), Float(20), Float(-5),
     Float(-37), Inf, NaN, ParRef(0)}

CommandPars ==
    {<<>>} \cup {<<p>> : p \in CommandParams}
           \cup {<<p, q>> : p, q \in CommandParams}

\* Command(gate, reg, par), on the arguments the caller has put together
CommandNew ==
    /\ ret.call = "Command.new"
    /\ ret' = [call |-> "Command", arg |-> ret.arg,
               val |-> command_init(ret.arg[1], ret.arg[2], ret.arg[3])]
    /\ UNCHANGED <<ops, op, grid, nodes, edges, variable_deps, built, clean,
                   n_updates>>
    /\ UNCHANGED circuit_vars

\* ------------------------------------------------------ the specification
\* no circuit in sight
NoCircuit ==
    /\ seq = <<>>
    /\ seq0 = <<>>
    /\ pars = <<>>
    /\ n_sys = 0
    /\ circ = "none"
    /\ qn = Idle
    /\ before = <<>>
    /\ evals = <<>>

\* no operator queue in sight
NoQueue ==
    /\ ops = <<>>
    /\ op = <<>>
    /\ grid = <<>>
    /\ nodes = {}
    /\ edges = {}
    /\ variable_deps = <<>>
    /\ built = FALSE
    /\ clean = TRUE
    /\ n_updates = 0
    /\ ret = NoCall

\* a sequence of distinct Commands, not yet given to Circuit
CommandInit(regLists, parLists) ==
    \E n \in 0..MaxCmds :
      \E r \in [1..n -> regLists], p \in [1..n -> parLists] :
        /\ seq = [c \in 1..n |-> Command(p[c], r[c])]
        /\ seq0 = [c \in 1..n |-> Command(p[c], r[c])]
        /\ pars = <<>>
        /\ n_sys = 0
        /\ circ = "new"
        /\ qn = Idle
        /\ before = <<>>
        /\ evals = <<>>

\* an operator queue of distinct records, not yet given to CircuitGraph
QueueInit(retTypes, parLists) ==
    \E n \in 0..MaxOps :
      \E w \in [1..n -> QueuedWireLists], r \in [1..n -> retTypes],
         p \in [1..n -> parLists] :
        /\ ops = [i \in 1..n |-> i]
        /\ op = [i \in 1..n |->
                   [wires |-> w[i], return_type |-> r[i],
                    params |-> p[i], queue_idx |-> None]]
        /\ grid = <<>>
        /\ nodes = {}
        /\ edges = {}
        /\ variable_deps = <<>>
        /\ built = FALSE
        /\ clean = TRUE
        /\ n_updates = 0
        /\ ret = NoCall
        /\ NoCircuit

\* construction and the queries, gates and observables without parameters
Init == QueueInit(BOOLEAN, {<<>>})

Next ==
    \/ Construct
    \/ ObservablesInOrder
    \/ OperationsInOrder
    \/ AncestorsInOrder
    \/ DescendantsInOrder
    \/ NodesBetween

Spec == Init /\ [][Next]_vars

\* construction, node replacement and the ordered queries on gates
UpdateInit == QueueInit({FALSE}, {<<>>})

UpdateNext ==
    \/ Construct
    \/ UpdateNode
    \/ UpdateNodeFresh
    \/ AncestorsInOrder
    \/ DescendantsInOrder

UpdateSpec == UpdateInit /\ [][UpdateNext]_vars

\* construction and layering of gates with zero, one or two parameters, each
\* a free parameter
Pars == {0, 1}

ParLists ==
    {<<>>} \cup {<<p>> : p \in Pars} \cup {<<p, q>> : p, q \in Pars}

LayerInit == QueueInit({FALSE}, ParLists)

LayerNext ==
    \/ Construct
    \/ Layers
    \/ IterateLayers

LayerSpec == LayerInit /\ [][LayerNext]_vars

\* construction and greedy_layers, gates and observables without parameters
GreedyInit == QueueInit(BOOLEAN, {<<>>})

GreedyNext ==
    \/ Construct
    \/ GreedyLayers
    \/ GreedyColumn

GreedySpec == GreedyInit /\ [][GreedyNext]_vars

\* the same, with a loop that goes on as long as it can: a call of
\* greedy_layers is not interrupted
GreedyLiveSpec == GreedySpec /\ WF_vars(GreedyColumn)

\* construction from a dict in either order, and layers
PassInit == QueueInit({FALSE}, ParLists)

PassNext ==
    \/ ConstructAnyOrder
    \/ Layers

PassSpec == PassInit /\ [][PassNext]_vars

\* circuit construction: one- and two-wire gates with at most one parameter,
\* wire labels and parameter indices with gaps and negative values
RegIds == {0, 1, 12}

RegLists == {<<a>> : a \in RegIds} \cup {<<0, 1>>, <<5, 0>>}

RefIds == {-1, 0, 1, 2}

CircuitParLists == {<<>>, <<Fixed(1)>>} \cup {<<ParRef(k)>> : k \in RefIds}

CircuitSpecInit == NoQueue /\ CommandInit(RegLists, CircuitParLists)

CircuitNext ==
    \/ CircuitInit

CircuitSpec == CircuitSpecInit /\ [][CircuitNext]_vars

\* the angle method on circuits of gates with zero, one or two parameters,
\* the two of a gate different from each other
AngleEntries == {Fixed(1), ParRef(0), ParRef(1)}

AngleParLists ==
    {<<>>} \cup {<<e>> : e \in AngleEntries}
           \cup ({<<e, f>> : e, f \in AngleEntries}
                    \ {<<e, e>> : e \in AngleEntries})

AngleInit == NoQueue /\ CommandInit({<<0>>}, AngleParLists)

AngleNext ==
    \/ CircuitInit
    \/ AngleCall
    \/ AngleShift
    \/ AngleEvalPlus
    \/ AngleEvalMinus
    \/ AngleRestore
    \/ AngleReturn
    \/ AngleExit

AngleSpec == AngleInit /\ [][AngleNext]_vars

\* the finite-difference method on circuits of gates with at most one
\* parameter
FiniteDiffParLists == {<<>>, <<Fixed(1)>>, <<ParRef(0)>>, <<ParRef(1)>>}

FiniteDiffInit == NoQueue /\ CommandInit({<<0>>}, FiniteDiffParLists)

FiniteDiffNext ==
    \/ CircuitInit
    \/ FiniteDiffCall
    \/ FiniteDiffEval0
    \/ FiniteDiffOrder
    \/ FiniteDiffForward
    \/ FiniteDiffPlus
    \/ FiniteDiffMinus
    \/ FiniteDiffReturn

FiniteDiffSpec == FiniteDiffInit /\ [][FiniteDiffNext]_vars

\* repeated calls of the angle method with a backend that may raise, on
\* circuits of gates with at most one parameter
RaisingInit == NoQueue /\ CommandInit({<<0>>}, FiniteDiffParLists)

RaisingNext ==
    \/ CircuitInit
    \/ AngleCall
    \/ AngleShift
    \/ AngleEvalPlus
    \/ AngleEvalPlusRaises
    \/ AngleEvalMinus
    \/ AngleEvalMinusRaises
    \/ AngleRestore
    \/ AngleReturn
    \/ AngleExit

RaisingSpec == RaisingInit /\ [][RaisingNext]_vars

\* both gradient methods with any argument which, on circuits of
\* one-parameter gates
WhichParLists == {<<ParRef(0)>>, <<ParRef(1)>>}

WhichInit == NoQueue /\ CommandInit({<<0>>}, WhichParLists)

WhichNext ==
    \/ CircuitInit
    \/ AngleCallAny
    \/ AngleShift
    \/ AngleEvalPlus
    \/ AngleEvalMinus
    \/ AngleRestore
    \/ AngleReturn
    \/ FiniteDiffCallAny
    \/ FiniteDiffEval0
    \/ FiniteDiffOrder
    \/ FiniteDiffForward
    \/ FiniteDiffPlus
    \/ FiniteDiffMinus
    \/ FiniteDiffReturn

WhichSpec == WhichInit /\ [][WhichNext]_vars

\* Command construction on gates of both parameter domains
CommandSpecInit ==
    /\ NoCircuit
    /\ ops = <<>>
    /\ op = <<>>
    /\ grid = <<>>
    /\ nodes = {}
    /\ edges = {}
    /\ variable_deps = <<>>
    /\ built = FALSE
    /\ clean = TRUE
    /\ n_updates = 0
    /\ \E gate \in GateSpecs, reg \in CommandRegs, par \in CommandPars :
          ret = [call |-> "Command.new", arg |-> <<gate, reg, par>>,
                 val |-> <<>>]

CommandNext ==
    \/ CommandNew

CommandSpec == CommandSpecInit /\ [][CommandNext]_vars

\* ------------------------------------------------------------- properties
\* no node is reachable from one of its own successors
IsAcyclic(E) ==
    \A n \in nodes : n \notin reach(E, {e[2] : e \in {x \in E : x[1] = n}})

\* position of a record in the operator queue, counted from 0
QueuePos(o) == (CHOOSE k \in DOMAIN ops : ops[k] = o) - 1

\* the wires a record acts on
WiresOf(o) == Range(op[o].wires)

\* b is the next operator after a on a wire both act on
NextOnSomeWire(a, b) ==
    \E w \in WiresOf(a) \cap WiresOf(b) :
        /\ QueuePos(a) < QueuePos(b)
        /\ ~\E c \in Range(ops) :
              /\ w \in WiresOf(c)
              /\ QueuePos(a) < QueuePos(c)
              /\ QueuePos(c) < QueuePos(b)

\* the lists of nodes that lead from a to b along the edges
Paths(a, b) ==
    {p \in UNION {[1..n -> nodes] : n \in 1..Cardinality(nodes)} :
        /\ p[1] = a
        /\ p[Len(p)] = b
        /\ \A i \in 1..(Len(p) - 1) : <<p[i], p[i + 1]>> \in edges}

StrictlyIncreasing(s) ==
    \A i, j \in DOMAIN s : i < j => by_idx(s[i]) < by_idx(s[j])

\* C5: the graph built from a queue of distinct records is acyclic and every
\* edge leads from a lower to a higher queue index
C5_AcyclicForwardEdges ==
    built =>
        /\ IsAcyclic(edges)
        /\ \A e \in edges : by_idx(e[1]) < by_idx(e[2])

C5_Witness ==
    /\ built
    /\ Len(ops) = 3
    /\ Cardinality(edges) >= 2
    /\ \E o \in nodes : Len(op[o].wires) = 2

\* C6: the graph has exactly one node per record of the queue, and its edges
\* are exactly the pairs (a, b) where b is the next operator after a on some
\* wire both act on
C6_NodesAndEdgesExact ==
    built =>
        /\ nodes = Range(ops)
        /\ Cardinality(nodes) = Len(ops)
        /\ edges = {e \in Range(ops) \X Range(ops) : NextOnSomeWire(e[1], e[2])}

C6_Witness ==
    /\ built
    /\ \E a, b, c \in nodes :
          /\ Len(op[b].wires) = 2
          /\ <<a, b>> \in edges
          /\ <<b, c>> \in edges
          /\ <<a, c>> \notin edges
          /\ WiresOf(a) \cap WiresOf(c) # {}

\* C7: operations_in_order and observables_in_order each list, by strictly
\* increasing queue index, the records without and with a return type; the
\* two lists are disjoint and together hold every node exactly once
C7_OrderedPartition ==
    /\ built => nodes = Range(ops)
    /\ ret.call = "observables_in_order" =>
          /\ StrictlyIncreasing(ret.val)
          /\ Range(ret.val) = {o \in Range(ops) : op[o].return_type}
    /\ ret.call = "operations_in_order" =>
          /\ StrictlyIncreasing(ret.val)
          /\ Range(ret.val) = {o \in Range(ops) : ~op[o].return_type}

C7_Witness ==
    /\ ret.call = "observables_in_order"
    /\ Len(ret.val) = 2
    /\ Len(ops) = 3

\* C8: nodes_between(a, b) is the set of nodes on the directed paths from a
\* to b, both ends included; it is empty exactly when there is no path
C8_NodesBetweenIsPaths ==
    ret.call = "nodes_between" =>
        LET a == ret.arg[1]
            b == ret.arg[2]
        IN  /\ ret.val = UNION {Range(p) : p \in Paths(a, b)}
            /\ Paths(a, b) # {} => {a, b} \subseteq ret.val
            /\ Paths(a, b) = {} => ret.val = {}

C8_Witness ==
    /\ ret.call = "nodes_between"
    /\ Cardinality(ret.val) = 3
    /\ ret.arg[1] # ret.arg[2]

\* C9: after construction and successful update_node calls with replacements
\* that were not nodes, ancestors_in_order and descendants_in_order are
\* strictly increasing in queue index and list no node before an ancestor
C9_InOrderAfterUpdates ==
    (clean /\ ret.call \in {"ancestors_in_order", "descendants_in_order"}) =>
        /\ StrictlyIncreasing(ret.val)
        /\ \A i, j \in DOMAIN ret.val :
              i < j => ret.val[j] \notin nx_ancestors(ret.val[i])

C9_Witness ==
    /\ clean
    /\ n_updates = 2
    /\ ret.call = "descendants_in_order"
    /\ Len(ret.val) = 2
    /\ \E i \in DOMAIN ret.val : ret.val[i] \notin Range(ops)

\* the entries of the dependency map: <<k, i>> stands for the i-th
\* dependency of the k-th parameter of the map
DepEntries ==
    {e \in (DOMAIN variable_deps) \X (1..(2 * MaxOps)) :
        e[2] \in DOMAIN variable_deps[e[1]][2]}

\* the operators that appear in the dependency map
DepOps == {variable_deps[e[1]][2][e[2]][1] : e \in DepEntries}

\* number of entries of the dependency map for operator o and parameter p
DepCount(o, p) ==
    Cardinality({e \in DepEntries :
        /\ variable_deps[e[1]][1] = p
        /\ variable_deps[e[1]][2][e[2]][1] = o})

\* the places <<layer, position>> of a list of layers
Places(ls) ==
    {pl \in (DOMAIN ls) \X (1..(2 * MaxOps)) : pl[2] \in DOMAIN ls[pl[1]].ops}

\* C1: no two operators of one layer are ancestor and descendant
C1_NoDependencyInLayer ==
    ret.call = "layers" =>
        \A l \in DOMAIN ret.val :
            \A i, j \in DOMAIN ret.val[l].ops :
                ret.val[l].ops[i] \notin nx_ancestors(ret.val[l].ops[j])

\* C4 as stated: every operator of the dependency map is at exactly one place
\* of the layers, and no other operator is in a layer
C4_EachOpOnce ==
    ret.call = "layers" =>
        /\ \A o \in DepOps :
              Cardinality({pl \in Places(ret.val) :
                              ret.val[pl[1]].ops[pl[2]] = o}) = 1
        /\ \A pl \in Places(ret.val) : ret.val[pl[1]].ops[pl[2]] \in DepOps

\* C4 amended: every operator of the dependency map is in the layers once
\* per entry it has in the map, each time with that entry's parameter index,
\* and no other operator is in a layer
C4_EachOpOncePerEntry ==
    ret.call = "layers" =>
        /\ \A o \in Range(ops), p \in Pars :
              Cardinality({pl \in Places(ret.val) :
                              /\ ret.val[pl[1]].ops[pl[2]] = o
                              /\ ret.val[pl[1]].param_inds[pl[2]] = p})
                  = DepCount(o, p)
        /\ \A pl \in Places(ret.val) : ret.val[pl[1]].ops[pl[2]] \in DepOps

C4_Witness ==
    /\ ret.call = "layers"
    /\ Len(ret.val) = 2
    /\ \E o \in DepOps, l1, l2 \in DOMAIN ret.val :
          /\ l1 # l2
          /\ o \in Range(ret.val[l1].ops)
          /\ o \in Range(ret.val[l2].ops)

\* the Commands that differ from what they were when the call began
Redirected == {c \in DOMAIN seq : seq[c] # before.seq[c]}

\* C2: when gradient_angle returns, the Commands and the dependency map are
\* what they were before the call; they are so already whenever the loop
\* turns to the next occurrence, and in between at most one Command is
\* redirected
C2_AngleRestores ==
    /\ qn.pc \in {"loop", "done"} => seq = before.seq /\ pars = before.pars
    /\ qn.pc \in {"eval_plus", "eval_minus", "restore"} =>
          Cardinality(Redirected) <= 1

C2_Witness ==
    /\ qn.pc = "done"
    /\ Len(evals) = 4
    /\ Len(qn.order) = 1

\* the backend's result for the circuit as it was before the call when
\* Command c alone reads the value of parameter k moved by d
ShiftedOnly(c, k, d) ==
    execute_circuit(
        [before.seq EXCEPT ![c].par[1] = Fixed(qn.params[k + 1] + d)],
        qn.params)

\* the sum over the Commands that use parameter k, from the j-th on, of half
\* the difference of the two results with that Command alone shifted
RECURSIVE ShiftSum(_, _)
ShiftSum(k, j) ==
    IF j > Len(before.pars[k]) THEN 0
    ELSE (ShiftedOnly(before.pars[k][j], k, PiHalf)
            - ShiftedOnly(before.pars[k][j], k, 0 - PiHalf)) \div 2
         + ShiftSum(k, j + 1)

RefIdx ==
    {k \in RefIds : \E c \in DOMAIN seq0 :
        \E j \in DOMAIN seq0[c].par : seq0[c].par[j] = ParRef(k)}

\* C10: Circuit construction succeeds exactly when the parameter indices
\* referred to are 0 .. k-1 for some k, whatever the wires are, and fails
\* with a ValueError otherwise; the Commands' parameters are left as given
C10_GaplessParamsOrError ==
    circ # "new" =>
        /\ circ \in {"ok", "ValueError"}
        /\ circ = "ok" <=> RefIdx = 0..(Cardinality(RefIdx) - 1)
        /\ \A c \in DOMAIN seq : seq[c].par = seq0[c].par
        /\ DOMAIN pars = RefIdx

C10_Witness ==
    /\ circ = "ok"
    /\ RefIdx = {0, 1}
    /\ \E c \in DOMAIN seq0 : 12 \in Range(seq0[c].reg)
    /\ seq # seq0

\* the wires the Commands handed to Circuit act on
Subsys0 == UNION {Range(seq0[c].reg) : c \in DOMAIN seq0}

\* the wires the Commands act on now
SubsysNow == UNION {Range(seq[c].reg) : c \in DOMAIN seq}

\* the positions of the Commands of s that act on wire w
OnWire(s, w) == {c \in DOMAIN s : w \in Range(s[c].reg)}

\* C11: Circuit construction rewrites the wires of every Command through
\* the order-preserving bijection from the used wires onto 0..n_sys-1: the
\* used wires become exactly 0..n_sys-1, every Command keeps its position
\* and the Commands on each original wire are those on its image
C11_OrderPreservingRemap ==
    circ \in {"ok", "ValueError"} =>
        /\ n_sys = Cardinality(Subsys0)
        /\ SubsysNow = 0..(n_sys - 1)
        /\ Len(seq) = Len(seq0)
        /\ \E m \in [Subsys0 -> 0..(n_sys - 1)] :
              /\ \A x, y \in Subsys0 : x < y => m[x] < m[y]
              /\ \A c \in DOMAIN seq :
                    /\ seq[c].par = seq0[c].par
                    /\ seq[c].reg =
                          [i \in DOMAIN seq0[c].reg |-> m[seq0[c].reg[i]]]
              /\ \A w \in Subsys0 : OnWire(seq, m[w]) = OnWire(seq0, w)

C11_Witness ==
    /\ circ = "ok"
    /\ Subsys0 = {0, 5, 12}
    /\ SubsysNow = {0, 1, 2}
    /\ Cardinality(OnWire(seq0, 0)) = 2

\* the number of indices below the largest used wire that no Command uses
UnusedBelowMax ==
    IF Subsys0 = {} THEN 0
    ELSE Cardinality((0..Max(Subsys0)) \ Subsys0)

\* C12 as stated: used wires with gaps but at most 10 unused indices are
\* left as given
C12_SmallGapsLeftAsGiven ==
    (circ \in {"ok", "ValueError"}
        /\ UnusedBelowMax > 0 /\ UnusedBelowMax <= MaxUnused) =>
        seq = seq0

\* C12: the Commands' wires are left as given exactly when the used wires
\* are 0..n-1; used wires with any gap are remapped, whether the unused
\* indices are more than 10 or not
C12_AnyGapRemapped ==
    circ \in {"ok", "ValueError"} =>
        (seq = seq0 <=> UnusedBelowMax = 0)

C12_Witness ==
    /\ circ = "ok"
    /\ UnusedBelowMax > 0
    /\ UnusedBelowMax <= MaxUnused
    /\ seq # seq0

\* the last call was Command(gate, reg, par) with as many parameters and
\* wires as the gate declares
CountsMatch ==
    /\ ret.call = "Command"
    /\ Len(ret.arg[3]) = ret.arg[1].n_par
    /\ Len(ret.arg[2]) = ret.arg[1].n_sys

\* the parameter is a float without an integer value (infinite or NaN)
NonFinite(p) == ~p.ref /\ ~is_integral(p) /\ p.float # "finite"

\* q is the non-negative integer that the fixed parameter p stands for:
\* the fraction dropped towards zero, a negative number replaced by 0
NaturalOf(p, q) ==
    /\ q = Fixed(q.v)
    /\ q.v >= 0
    /\ IF is_integral(p)
       THEN q.v = (IF p.v < 0 THEN 0 ELSE p.v)
       ELSE IF p.tenths < 0 THEN q.v = 0
            ELSE 10 * q.v <= p.tenths /\ p.tenths < 10 * q.v + 10

\* the number of times the warning w was logged
Logged(w) == Cardinality({i \in DOMAIN ret.val.log : ret.val.log[i] = w})

\* what C13 says of a call that went through: natural-domain parameters
\* are non-negative integers, each coercion logged, references untouched;
\* real-domain parameters are untouched
CoercedAsStated ==
    LET gate == ret.arg[1]
        par == ret.arg[3]
        out == ret.val.cmd.par
    IN  /\ Len(out) = Len(par)
        /\ gate.par_domain = "R" => (out = par /\ ret.val.log = <<>>)
        /\ gate.par_domain = "N" =>
              /\ \A j \in DOMAIN par :
                    IF par[j].ref THEN out[j] = par[j]
                    ELSE NaturalOf(par[j], out[j])
              /\ Logged("truncated") =
                    Cardinality({j \in DOMAIN par :
                        ~par[j].ref /\ ~is_integral(par[j])})
              /\ Logged("negative") =
                    Cardinality({j \in DOMAIN par :
                        /\ ~par[j].ref
                        /\ IF is_integral(par[j]) THEN par[j].v < 0
                           ELSE par[j].tenths <= -10})

PerturbedFrom(first) ==
    \A m \in DOMAIN evals : m >= first => evals[m].temp # before.params

\* C15: gradient_finite_diff makes 1 + |which| backend evaluations for
\* order 1, the first of them the only one at the caller's vector, and
\* 2 * |which| evaluations for order 2
C15_FiniteDiffEvaluations ==
    /\ (qn.pc \in {"fd1", "done"} /\ qn.fd_order = 1) =>
          /\ Len(evals) = qn.i
          /\ evals[1].temp = before.params
          /\ PerturbedFrom(2)
    /\ (qn.pc \in {"fd2", "done"} /\ qn.fd_order = 2) =>
          /\ Len(evals) = 2 * (qn.i - 1)
          /\ PerturbedFrom(1)
    /\ qn.pc = "done" => qn.i = Len(qn.order) + 1

C15_Witness ==
    /\ qn.pc = "done"
    /\ qn.fd_order = 1
    /\ Len(qn.order) = 2
    /\ Len(evals) = 3
    /\ qn.grad[2] # 0

\* the occurrences <<k, number of the Command>> of the selected parameters
\* from the i-th selected one on, in the order gradient_angle visits them
RECURSIVE Occurrences(_)
Occurrences(i) ==
    IF i > Len(qn.order) THEN <<>>
    ELSE LET k == qn.order[i]
         IN  (IF k \in DOMAIN before.pars
              THEN [j \in DOMAIN before.pars[k] |-> <<k, before.pars[k][j]>>]
              ELSE <<>>)
             \o Occurrences(i + 1)

\* the m-th evaluation is the one of the occurrence occ with its parameter
\* shifted by d: the other Commands as before the call
EvaluatesShift(m, occ, d) ==
    LET e == evals[m]
        k == occ[1]
        c == occ[2]
    IN  /\ e.seq = [before.seq EXCEPT ![c].par[1] = ParRef(qn.n)]
        /\ SubSeq(e.temp, 1, Len(qn.params)) = qn.params
        /\ Len(e.temp) = Len(qn.params) + 1
        /\ e.temp[Len(e.temp)] = qn.params[k + 1] + d

\* C16: gradient_angle makes two backend evaluations for every occurrence
\* of every selected parameter, the one at +pi/2 immediately before the
\* one at -pi/2, and no other: twice the number of occurrences in total
C16_TwoEvaluationsPerOccurrence ==
    qn.pc \notin {"idle"} =>
        LET occ == Occurrences(1)
        IN  /\ Len(evals) <= 2 * Len(occ)
            /\ \A m \in DOMAIN evals :
                  IF m % 2 = 1
                  THEN EvaluatesShift(m, occ[(m + 1) \div 2], PiHalf)
                  ELSE EvaluatesShift(m, occ[m \div 2], 0 - PiHalf)
            /\ qn.pc = "done" => Len(evals) = 2 * Len(occ)

C16_Witness ==
    /\ qn.pc = "done"
    /\ Len(qn.order) = 2
    /\ Len(Occurrences(1)) = 3
    /\ Len(evals) = 6

\* the number of occurrences gradient_angle went through before the one it
\* is at
OccurrencesDone ==
    Len(Occurrences(1)) - Len(Occurrences(qn.i)) + (qn.j - 1)

\* C17: gradient_angle raises ValueError when it reaches a Command that
\* uses a selected parameter and has not exactly one parameter, and never
\* goes on with such a Command; when it raises, the Commands and the
\* parameter map are as before the call and the only evaluations made are
\* the two of each occurrence gone through before
C17_MultiParameterGateRaises ==
    /\ qn.pc = "ValueError" =>
          /\ before.seq[before.pars[qn.order[qn.i]][qn.j]].gate_n_par # 1
          /\ seq = before.seq
          /\ pars = before.pars
          /\ Len(evals) = 2 * OccurrencesDone
    /\ qn.pc \in {"eval_plus", "eval_minus", "restore"} =>
          before.seq[before.pars[qn.order[qn.i]][qn.j]].gate_n_par = 1

C17_Witness ==
    /\ qn.pc = "ValueError"
    /\ Len(evals) = 2
    /\ qn.j = 2

\* C18: gradient_finite_diff raises ValueError for every order other than
\* 1 and 2 and for no other, having made no backend evaluation and left
\* the Commands, the parameter map and the caller's vector as they were
C18_BadOrderRaises ==
    /\ qn.pc = "ValueError" =>
          /\ qn.fd_order \notin {1, 2}
          /\ evals = <<>>
          /\ seq = before.seq
          /\ pars = before.pars
          /\ qn.params = before.params
    /\ qn.pc \in {"fd1", "fd2", "fd2_minus", "done"} =>
          qn.fd_order \in {1, 2}

C18_Witness ==
    /\ qn.pc = "ValueError"
    /\ qn.fd_order = 3
    /\ Len(qn.order) = 2

\* C19: update_node(old, new) raises an error and leaves the nodes, the
\* edges, the queue index of new, the wire grid and the dependency map as
\* they were when new does not act on the same set of wires as old, and
\* succeeds on a node old when new acts on the same set of wires, in
\* whatever order each record lists them
C19_SameWireSetDecides ==
    [][ret'.call = "update_node" =>
          LET old == ret'.arg[1]
              new == ret'.arg[2]
          IN  IF Range(ret'.wires[1]) # Range(ret'.wires[2])
              THEN /\ ret'.val = "ValueError"
                   /\ UNCHANGED <<nodes, edges, grid, variable_deps>>
                   /\ new \in DOMAIN op =>
                         op'[new].queue_idx = op[new].queue_idx
              ELSE old \in nodes => ret'.val = "ok"]_vars

\* a leads to b along at least one and at most n edges
RECURSIVE LeadsWithin(_, _, _)
LeadsWithin(a, b, n) ==
    \/ <<a, b>> \in edges
    \/ /\ n > 1
       /\ \E c \in nodes : <<a, c>> \in edges /\ LeadsWithin(c, b, n - 1)

\* a leads to b along one edge or more
LeadsTo(a, b) == LeadsWithin(a, b, Cardinality(nodes))

\* C20 as stated: for every layer that iterate_layers yields, pre_ops, ops
\* and post_ops are pairwise disjoint and every node of the graph is in one
\* of them, each list sorted by queue index
C20_CompletePartition ==
    ret.call = "iterate_layers" =>
        \A l \in DOMAIN ret.val :
            LET pre == Range(ret.val[l].pre_ops)
                in_layer == Range(ret.val[l].ops)
                post == Range(ret.val[l].post_ops)
            IN  /\ pre \cap in_layer = {}
                /\ post \cap in_layer = {}
                /\ pre \cap post = {}
                /\ pre \cup in_layer \cup post = nodes
                /\ StrictlyIncreasing(ret.val[l].pre_ops)
                /\ StrictlyIncreasing(ret.val[l].post_ops)

\* C20: for every layer that iterate_layers yields, pre_ops lists, by
\* increasing queue index, the nodes outside the layer that lead to an
\* operator of the layer, and post_ops those that an operator of the layer
\* leads to; both are disjoint from the layer, and a node that neither
\* leads to the layer nor is led to from it is in none of the three
C20_BeforeAndAfterLayer ==
    ret.call = "iterate_layers" =>
        /\ [l \in DOMAIN ret.val |->
              [ops |-> ret.val[l].ops, param_inds |-> ret.val[l].param_inds]]
              = layers
        /\ \A l \in DOMAIN ret.val :
            LET pre == Range(ret.val[l].pre_ops)
                in_layer == Range(ret.val[l].ops)
                post == Range(ret.val[l].post_ops)
            IN  /\ pre = {n \in nodes \ in_layer :
                            \E o \in in_layer : LeadsTo(n, o)}
                /\ post = {n \in nodes \ in_layer :
                            \E o \in in_layer : LeadsTo(o, n)}
                /\ StrictlyIncreasing(ret.val[l].pre_ops)
                /\ StrictlyIncreasing(ret.val[l].post_ops)

C20_Witness ==
    /\ ret.call = "iterate_layers"
    /\ \E l \in DOMAIN ret.val :
          /\ Len(ret.val[l].pre_ops) = 1
          /\ Len(ret.val[l].ops) = 1
          /\ Len(ret.val[l].post_ops) = 0
          /\ Cardinality(nodes) = 3

\* C21: when the backend raises during either shifted evaluation of
\* gradient_angle, the circuit is as it was before the call: every Command
\* holds its original parameters and the dependency map has no temporary
\* index
C21_RestoredOnBackendError ==
    qn.pc = "BackendError" => seq = before.seq /\ pars = before.pars


\* the Commands of the sequence s with a parameter that refers to index x
Consumers(s, x) ==
    {c \in DOMAIN s :
        \E p \in DOMAIN s[c].par : s[c].par[p].ref /\ s[c].par[p].v = x}

\* C22: at every backend evaluation of a gradient_angle call whose vector
\* has n = n_par entries, exactly one Command, a consumer of some index k
\* before the call, refers to the temporary index n and every other Command
\* is as it was before the call; the vector handed to the backend is params
\* followed by params[k] + pi/2 at the first evaluation of the occurrence
\* and by params[k] - pi/2 at the second
C22_OneOccurrenceShifted ==
    ("n" \in DOMAIN qn /\ Len(qn.params) = qn.n) =>
        \A m \in DOMAIN evals :
            LET e == evals[m]
                d == IF m % 2 = 1 THEN PiHalf ELSE 0 - PiHalf
            IN  /\ Cardinality(Consumers(e.seq, qn.n)) = 1
                /\ Consumers(before.seq, qn.n) = {}
                /\ \A c \in DOMAIN e.seq :
                      IF c \in Consumers(e.seq, qn.n)
                      THEN /\ e.seq[c].par = <<ParRef(qn.n)>>
                           /\ before.seq[c].par[1].ref
                           /\ before.seq[c].par[1].v \in 0..(qn.n - 1)
                           /\ e.temp[qn.n + 1] =
                                 qn.params[before.seq[c].par[1].v + 1] + d
                      ELSE e.seq[c] = before.seq[c]
                /\ Len(e.temp) = qn.n + 1
                /\ SubSeq(e.temp, 1, qn.n) = qn.params

\* both evaluations of an occurrence of a parameter that a second Command
\* consumes too, which still refers to it
C22_Witness ==
    /\ "n" \in DOMAIN qn
    /\ Len(qn.params) = qn.n
    /\ Len(evals) >= 2
    /\ \E c \in Consumers(evals[2].seq, qn.n) :
          Consumers(evals[2].seq, before.seq[c].par[1].v) # {}

\* C23: the assertion orig.idx == k of gradient_angle never fails, in no
\* call of a sequence of calls on one circuit
C23_OrigRefersToK == qn.pc # "AssertionError"

\* the vector t is the caller's vector with entry k alone moved, by d
OnlyEntryMoved(t, k, d) ==
    /\ DOMAIN t = DOMAIN before.params
    /\ \A x \in DOMAIN t :
          t[x] = before.params[x] + (IF x = k + 1 THEN d ELSE 0)

\* C24: gradient_finite_diff never changes a Command, the dependency map or
\* the caller's vector, and every perturbed vector it hands to the backend
\* is the caller's vector with one entry moved: the entry of the index k
\* being differentiated, by +h for order 1 and by +h/2, then -h/2 for
\* order 2
C24_OnlyCopiesPerturbed ==
    "fd_order" \in DOMAIN qn =>
        /\ seq = before.seq
        /\ pars = before.pars
        /\ qn.params = before.params
        /\ \A m \in DOMAIN evals :
              /\ evals[m].seq = before.seq
              /\ qn.fd_order = 1 =>
                    IF m = 1 THEN evals[m].temp = before.params
                    ELSE OnlyEntryMoved(evals[m].temp, qn.order[m - 1], qn.h)
              /\ qn.fd_order = 2 =>
                    IF m % 2 = 1
                    THEN OnlyEntryMoved(evals[m].temp,
                                        qn.order[(m + 1) \div 2],
                                        qn.h \div 2)
                    ELSE OnlyEntryMoved(evals[m].temp,
                                        qn.order[m \div 2],
                                        0 - (qn.h \div 2))

\* an order-2 call that has differentiated two parameters of a circuit
\* that uses them
C24_Witness ==
    /\ "fd_order" \in DOMAIN qn
    /\ qn.pc = "done"
    /\ qn.fd_order = 2
    /\ Len(evals) = 4
    /\ Len(before.params) >= 2
    /\ DOMAIN pars # {}
    /\ evals[1].x # evals[2].x

\* the result of the circuit as it was at the call, at the caller's vector
\* with entry k moved by d
ResultAt(k, d) ==
    execute_circuit(before.seq, [qn.params EXCEPT ![k + 1] = @ + d])

\* the derivative with respect to index k as the method of the call in
\* progress estimates it
Estimate(k) ==
    IF "fd_order" \notin DOMAIN qn THEN ShiftSum(k, 1)
    ELSE IF qn.fd_order = 1
    THEN (ResultAt(k, qn.h) - ResultAt(k, 0)) \div qn.h
    ELSE (ResultAt(k, qn.h \div 2) - ResultAt(k, 0 - (qn.h \div 2)))
            \div qn.h

\* the number of backend evaluations that the selection of the call in
\* progress calls for
EvaluationsDue ==
    IF "fd_order" \notin DOMAIN qn THEN 2 * Len(Occurrences(1))
    ELSE IF qn.fd_order = 1 THEN 1 + Len(qn.order)
    ELSE 2 * Len(qn.order)

\* C25: the vector that either gradient method returns has one entry for
\* every distinct index of which, however often which repeats it, entry i
\* being the derivative with respect to the i-th index of the enumeration
\* (for the angle method, on a vector of n_par entries), and the backend
\* is called no more often than the distinct indices call for; with which
\* left out there is one entry for each element of params, entry i for
\* index i
C25_OneEntryPerDistinctIndex ==
    qn.pc = "done" =>
        /\ Len(qn.grad) = Len(qn.order)
        /\ \A a, b \in DOMAIN qn.order : a # b => qn.order[a] # qn.order[b]
        /\ qn.which.given => Range(qn.order) = Range(qn.which.seq)
        /\ ~qn.which.given =>
              /\ Len(qn.grad) = Len(qn.params)
              /\ \A i \in DOMAIN qn.order : qn.order[i] = i - 1
        /\ ("fd_order" \in DOMAIN qn \/ Len(qn.params) = qn.n) =>
              \A i \in DOMAIN qn.grad : qn.grad[i] = Estimate(qn.order[i])
        /\ Len(evals) = EvaluationsDue

\* a returned gradient of one non-zero entry for an index that which names
\* twice
C25_Witness ==
    /\ qn.pc = "done"
    /\ qn.which.given
    /\ Len(qn.which.seq) = 2
    /\ Len(qn.grad) = 1
    /\ qn.grad[1] # 0

\* the node x under the replacement of old by new
Renamed(x, old, new) == IF x = old THEN new ELSE x

\* C26: a successful update_node(old, new) with a new that was not a node
\* takes old out of the nodes and puts new in, with the queue index of old
\* and with the predecessors and successors old had; every other edge, the
\* numbers of nodes and of edges, acyclicity, the wire grid and the
\* dependency map are as before
C26_SplicedInPlace ==
    [][(/\ ret'.call = "update_node"
        /\ ret'.val = "ok"
        /\ ret'.arg[1] \in nodes
        /\ ret'.arg[2] \notin nodes) =>
          LET old == ret'.arg[1]
              new == ret'.arg[2]
          IN  /\ old \notin nodes'
              /\ new \in nodes'
              /\ nodes' \ {new} = nodes \ {old}
              /\ op'[new].queue_idx = op[old].queue_idx
              /\ {e[1] : e \in {d \in edges' : d[2] = new}} =
                    {Renamed(e[1], old, new) :
                        e \in {d \in edges : d[2] = old}}
              /\ {e[2] : e \in {d \in edges' : d[1] = new}} =
                    {Renamed(e[2], old, new) :
                        e \in {d \in edges : d[1] = old}}
              /\ {d \in edges' : d[1] # new /\ d[2] # new} =
                    {d \in edges : d[1] # old /\ d[2] # old}
              /\ Cardinality(nodes') = Cardinality(nodes)
              /\ Cardinality(edges') = Cardinality(edges)
              /\ IsAcyclic(edges) => IsAcyclic(edges)'
              /\ UNCHANGED <<grid, variable_deps>>]_vars

\* a replacement record, never a node before, in the place of a queued
\* operator between a predecessor and a successor
C26_Witness ==
    /\ ret.call = "update_node"
    /\ ret.val = "ok"
    /\ clean
    /\ ret.arg[1] \in Range(ops)
    /\ ret.arg[2] \notin Range(ops)
    /\ ret.arg[2] \in nodes
    /\ \E a, b \in nodes :
          <<a, ret.arg[2]>> \in edges /\ <<ret.arg[2], b>> \in edges

\* C27: update_node(old, new) with a new that was not a node, followed by
\* update_node(new, old), succeeds and leaves the nodes, the edges and the
\* queue index of every node, that of old among them, as they were before
\* the first call, and the wire grid and the dependency map as they are:
\* all that ancestors, descendants, nodes_between, the in-order lists and
\* layers are computed from
C27_RoundTripRestores ==
    [][(/\ ret.call = "update_node"
        /\ ret.val = "ok"
        /\ ret.arg[1] \in ret.prev.nodes
        /\ ret.arg[2] \notin ret.prev.nodes
        /\ ret'.call = "update_node"
        /\ ret'.arg = <<ret.arg[2], ret.arg[1]>>) =>
          /\ ret'.val = "ok"
          /\ nodes' = ret.prev.nodes
          /\ edges' = ret.prev.edges
          /\ [x \in nodes' |-> op'[x].queue_idx] = ret.prev.idx
          /\ op'[ret.arg[1]].queue_idx = ret.prev.idx[ret.arg[1]]
          /\ UNCHANGED <<grid, variable_deps>>]_vars

\* a queued operator with a predecessor or a successor, back in its place
\* after a replacement record made for the purpose has stood in for it
C27_Witness ==
    /\ ret.call = "update_node"
    /\ ret.val = "ok"
    /\ clean
    /\ n_updates = 2
    /\ ret.arg[1] \notin Range(ops)
    /\ ret.arg[2] \in Range(ops)
    /\ nodes = Range(ops)
    /\ edges = build_edges(grid)
    /\ \E e \in edges : e[1] = ret.arg[2] \/ e[2] = ret.arg[2]

\* the operators of the graph that are not observables
NonObservables == {o \in Range(ops) : ~is_observable(o)}

\* the columns of row r that hold the operator o
ColumnsOf(r, o) == {c \in DOMAIN r : r[c] = o}

\* C28: every call of greedy_layers comes to its end, with every operator
\* that is not an observable in the grid it returns
C28_GreedyTerminates ==
    (ret.call = "greedy_layers") ~>
        (/\ ret.call = "greedy_layers"
         /\ ret.pc = "done"
         /\ \A o \in NonObservables :
               \E w \in DOMAIN ret.val[1] : ColumnsOf(ret.val[1][w], o) # {})

\* C29: in the grid that greedy_layers returns all rows have one length;
\* an operator that is not an observable is in the row of each of its wires
\* once, in one column for all of them, and in no other row; what a row
\* holds beside placeholders is the wire's operators that are not
\* observables, in queue order; and the stored grid and the graph are as
\* construction left them
C29_GreedyGridAligned ==
    ret.call = "greedy_layers" =>
        /\ grid = build_grid(ops, op)
        /\ nodes = build_nodes(grid)
        /\ edges = build_edges(grid)
        /\ ret.pc = "done" =>
              LET g == ret.val[1]
              IN  /\ DOMAIN g = DOMAIN grid
                  /\ \A v, w \in DOMAIN g : Len(g[v]) = Len(g[w])
                  /\ \A o \in NonObservables, w \in DOMAIN g :
                        Cardinality(ColumnsOf(g[w], o)) =
                            IF w \in WiresOf(o) THEN 1 ELSE 0
                  /\ \A o \in NonObservables :
                        \A v, w \in WiresOf(o) :
                           ColumnsOf(g[v], o) = ColumnsOf(g[w], o)
                  /\ \A w \in DOMAIN g :
                        SelectSeq(g[w], LAMBDA x : x # None) =
                            SelectSeq(grid[w],
                                      LAMBDA x : ~op[x].return_type)

\* a returned grid in which a placeholder holds back a two-wire operator
\* on one of its wires
C29_Witness ==
    /\ ret.call = "greedy_layers"
    /\ ret.pc = "done"
    /\ \E w \in DOMAIN ret.val[1] :
          \E c \in DOMAIN ret.val[1][w] :
             /\ c < Len(ret.val[1][w])
             /\ ret.val[1][w][c] = None
             /\ ret.val[1][w][c + 1] # None
             /\ Cardinality(WiresOf(ret.val[1][w][c + 1])) = 2

\* a call of greedy_layers on a graph with a wire has filled, at column l,
\* every row up to that column and is over before it gets to column
\* MaxColumns
GreedyWithinColumns ==
    (ret.call = "greedy_layers" /\ ret.pc = "loop" /\ DOMAIN grid # {}) =>
        /\ ret.l <= Cardinality(NonObservables)
        /\ ret.l < MaxColumns
        /\ \A w \in DOMAIN ret.greedy_grid : Len(ret.greedy_grid[w]) >= ret.l

\* a call of greedy_layers on a graph with a wire comes to its end
GreedyTerminatesOnWires ==
    (ret.call = "greedy_layers" /\ DOMAIN grid # {}) ~>
        (ret.call = "greedy_layers" /\ ret.pc = "done")

\* the pairs <<operator, parameter>> of the layers ls, one layer after the
\* other
RECURSIVE LayerItems(_)
LayerItems(ls) ==
    IF ls = <<>> THEN <<>>
    ELSE [i \in DOMAIN ls[1].ops |-> <<ls[1].ops[i], ls[1].param_inds[i]>>]
         \o LayerItems(Tail(ls))

\* the number of operators in the first l layers of ls
RECURSIVE OpsUpTo(_, _)
OpsUpTo(ls, l) ==
    IF l = 0 THEN 0 ELSE Len(ls[l].ops) + OpsUpTo(ls, l - 1)

\* the layer of ls that holds the m-th of its pairs
LayerOf(ls, m) ==
    CHOOSE l \in DOMAIN ls : OpsUpTo(ls, l - 1) < m /\ m <= OpsUpTo(ls, l)

\* the queue index of the first operator that depends on the k-th
\* parameter of the dependency map
FirstIdx(k) == op[variable_deps[k][2][1][1]].queue_idx

\* the dependency entry d is visited before the entry e: parameters by the
\* queue index of their first operator (by their place in the map when
\* that is the same), the entries of one parameter as the map lists them
VisitedBefore(d, e) ==
    \/ FirstIdx(d[1]) < FirstIdx(e[1])
    \/ FirstIdx(d[1]) = FirstIdx(e[1]) /\ d[1] < e[1]
    \/ d[1] = e[1] /\ d[2] < e[2]

\* the place of the dependency entry e in the order of the visit
VisitRank(e) == 1 + Cardinality({d \in DepEntries : VisitedBefore(d, e)})

\* C30: the layers that layers returns have as many parameter indices as
\* operators each and none but the first is empty; read one after the other
\* they are the dependency entries in the order of the visit, each once;
\* and a pair opens a new layer exactly when its operator has an ancestor
\* among the operators put in the current layer before it
C30_SingleForwardPass ==
    ret.call = "layers" =>
        LET ls == ret.val
            items == LayerItems(ls)
        IN  /\ Len(ls) >= 1
            /\ \A l \in DOMAIN ls : Len(ls[l].ops) = Len(ls[l].param_inds)
            /\ \A l \in DOMAIN ls : l > 1 => ls[l].ops # <<>>
            /\ Len(items) = Cardinality(DepEntries)
            /\ \A e \in DepEntries :
                  items[VisitRank(e)] =
                      <<variable_deps[e[1]][2][e[2]][1], variable_deps[e[1]][1]>>
            /\ \A m \in 2..Len(items) :
                  LET l == LayerOf(ls, m)
                      lp == LayerOf(ls, m - 1)
                      current == {items[x][1] :
                                     x \in (OpsUpTo(ls, lp - 1) + 1)..(m - 1)}
                  IN  /\ l \in {lp, lp + 1}
                      /\ l = lp + 1 <=>
                            \E a \in current : LeadsTo(a, items[m][1])

\* two layers, the first of them of two operators with different parameters
C30_Witness ==
    /\ Len(variable_deps) = 2
    /\ FirstIdx(1) > FirstIdx(2)
    /\ ret.call = "layers"
    /\ Len(ret.val) = 2
    /\ Len(ret.val[1].ops) = 2
    /\ Len(ret.val[2].ops) >= 1
    /\ ret.val[1].param_inds[1] # ret.val[1].param_inds[2]

====
